---- MODULE Spec2Model ----
(***************************************************************************)
(* Model of the maas-flow reconciliation engine: the transition table and  *)
(* its lookup, the include filters, ProcessNode / ProcessAll, the action   *)
(* goroutines and the polling loop of main.                                *)
(*                                                                         *)
(* Strings that the code inspects character by character (host names,      *)
(* zones, regular expressions) are sequences of one-character strings.     *)
(***************************************************************************)
EXTENDS Integers, Sequences, FiniteSets, TLC

(***************************************************************************)
(* Bounds of the model.                                                    *)
(***************************************************************************)
\* number of passes (the immediate one and the ticks) that are explored
MaxCycles == 2

(***************************************************************************)
(* State.                                                                  *)
(***************************************************************************)
VARIABLES
    preview,        \* config.Preview
    filter,         \* the decoded FILTER_SPEC
    world,          \* service: the state of each machine
    pc,             \* main: where it is
    cycle,          \* number of passes started
    nodes,          \* main: the snapshot of the current pass
    fetchFailed,    \* the fetch of the current pass returned an error
    errors,         \* the slice ProcessAll returned
    lookedUp,       \* indices for which findAction was called in this pass
    dispatched,     \* per index, the action started in this pass
    prevDispatched, \* dispatched of the previous pass
    sameSnapshot,   \* the snapshot of this pass equals the previous one
    inflight,       \* action goroutines started and not yet run
    calls,          \* remote calls made by the goroutines of the current pass
    log,            \* log lines written by the current pass and its goroutines
    tickerC,        \* ticker.C: "unset" before time.NewTicker, then "empty" or "full"
    passes,         \* passes (fetchNodes then ProcessAll) in progress
    probeTarget,    \* lookup alone: the inputs and the result of findAction
    probeCurrent,
    probeResult

vars ==
    << preview, filter, world, pc, cycle, nodes, fetchFailed, errors,
       lookedUp, dispatched, prevDispatched, sameSnapshot, inflight, calls, log,
       tickerC, passes, probeTarget, probeCurrent, probeResult >>

configVars == << preview, filter >>
probeVars == << probeTarget, probeCurrent, probeResult >>
tickVars == << tickerC, passes >>
passVars == << nodes, fetchFailed, errors, lookedUp, dispatched, prevDispatched, sameSnapshot >>

(***************************************************************************)
(* Status names.  MaasNodeStatus and its String method live in node.go;    *)
(* the enumeration is taken from the data model of the specification.      *)
(***************************************************************************)
StatusNames ==
    << "New", "Commissioning", "FailedCommissioning", "Ready", "Allocated",
       "Deploying", "Deployed", "Releasing", "FailedReleasing", "DiskErasing",
       "FailedDiskErasing", "Broken", "Retired", "Reserved", "Missing",
       "FailedDeployment" >>

StatusCodes == 0 .. (Len(StatusNames) - 1)

\* MaasNodeStatus(v).String()
StatusString(v) == StatusNames[v + 1]

\* the integer code of a status name
StatusCode(name) == CHOOSE v \in StatusCodes : StatusString(v) = name

(***************************************************************************)
(* The transition table (Target, Current, Using), in source order.         *)
(***************************************************************************)
Tr(t, c, u) == [Target |-> t, Current |-> c, Using |-> u]

\* the table with the record of Broken sending the machine back to commissioning
TransitionsBrokenRecommission ==
    << Tr("Deployed", "Deployed", "Done"),
       Tr("Deployed", "Ready", "Aquire"),
       Tr("Deployed", "Allocated", "Deploy"),
       Tr("Deployed", "Retired", "AdminState"),
       Tr("Deployed", "Reserverd", "AdminState"),
       Tr("Deployed", "Releasing", "Wait"),
       Tr("Deployed", "DiskErasing", "Wait"),
       Tr("Deployed", "Deploying", "Wait"),
       Tr("Deployed", "Commissioning", "Wait"),
       Tr("Deployed", "Missing", "Fail"),
       Tr("Deployed", "FailedReleasing", "Fail"),
       Tr("Deployed", "FailedDiskErasing", "Fail"),
       Tr("Deployed", "FailedDeployment", "Fail"),
       Tr("Deployed", "Broken", "Comission"),
       Tr("Deployed", "FailedCommissioning", "Fail"),
       Tr("Deployed", "New", "Comission") >>

Transitions ==
    << Tr("Deployed", "Deployed", "Done"),
       Tr("Deployed", "Ready", "Aquire"),
       Tr("Deployed", "Allocated", "Deploy"),
       Tr("Deployed", "Retired", "AdminState"),
       Tr("Deployed", "Reserverd", "AdminState"),
       Tr("Deployed", "Releasing", "Wait"),
       Tr("Deployed", "DiskErasing", "Wait"),
       Tr("Deployed", "Deploying", "Wait"),
       Tr("Deployed", "Commissioning", "Wait"),
       Tr("Deployed", "Missing", "Fail"),
       Tr("Deployed", "FailedReleasing", "Fail"),
       Tr("Deployed", "FailedDiskErasing", "Fail"),
       Tr("Deployed", "FailedDeployment", "Fail"),
       Tr("Deployed", "Broken", "Fail"),
       Tr("Deployed", "FailedCommissioning", "Fail"),
       Tr("Deployed", "New", "Comission") >>

ActionNames == {"Done", "Aquire", "Deploy", "AdminState", "Wait", "Fail", "Comission"}

\* a nil error
Nil == [kind |-> "nil"]

\* a nil Action
NoAction == "none"

\* fmt.Errorf("Could not find transition from current state '%s'", current)
NoRouteError(current) == [kind |-> "no_transition", current |-> current]

\* the error of node.GetInteger("substatus")
NoIntError == [kind |-> "no_integer"]

\* findAction scanning the table from position i
RECURSIVE findActionFrom(_, _)
findActionFrom(i, current) ==
    IF i > Len(Transitions)
    THEN [action |-> NoAction, err |-> NoRouteError(current)]
    ELSE IF Transitions[i].Current = current
         THEN [action |-> Transitions[i].Using, err |-> Nil]
         ELSE findActionFrom(i + 1, current)

\* findAction keyed on the target column
findActionByTarget(target, current) ==
    IF \E i \in 1 .. Len(Transitions) : Transitions[i].Target = target
    THEN [action |-> Transitions[CHOOSE i \in 1 .. Len(Transitions) :
                                    /\ Transitions[i].Target = target
                                    /\ \A k \in 1 .. (i - 1) : Transitions[k].Target # target].Using,
          err |-> Nil]
    ELSE [action |-> NoAction, err |-> NoRouteError(current)]

\* findAction falling back to Wait when no record matches
findActionDefaultWait(target, current) ==
    IF findActionFrom(1, current).err = Nil
    THEN findActionFrom(1, current)
    ELSE [action |-> "Wait", err |-> Nil]

\* findAction(target, current): the first record whose Current matches
findAction(target, current) == findActionFrom(1, current)

(***************************************************************************)
(* The remote operation an action posts to the service (none for the       *)
(* actions that only log).                                                 *)
(***************************************************************************)
\* Deploy logging without posting start
RemoteOpDeployNoOp(action) ==
    CASE action = "Aquire" -> "acquire"
      [] action = "Comission" -> "commission"
      [] OTHER -> "none"

RemoteOp(action) ==
    CASE action = "Deploy" -> "start"
      [] action = "Aquire" -> "acquire"
      [] action = "Comission" -> "commission"
      [] OTHER -> "none"

\* the tag of the line an action logs
ActionLogTag(action) ==
    CASE action = "Done" -> "COMPLETE"
      [] action = "Deploy" -> "DEPLOY"
      [] action = "Aquire" -> "AQUIRE"
      [] action = "Comission" -> "COMISSION"
      [] action = "Wait" -> "WAIT"
      [] action = "Fail" -> "FAIL"
      [] action = "AdminState" -> "ADMIN"

(***************************************************************************)
(* Regular expressions.  The fragment of the regexp syntax the model       *)
(* covers: literal characters, '.', the postfix '*', and the errors of a   *)
(* repetition without argument, a nested repetition and a parenthesis      *)
(* that is not closed (the patterns of the model hold no balanced group).  *)
(* A compiled expression is a sequence of [c, star].                       *)
(***************************************************************************)
RECURSIVE CompileFrom(_, _, _)
CompileFrom(p, i, acc) ==
    IF i > Len(p)
    THEN [ok |-> TRUE, prog |-> acc]
    ELSE IF p[i] = "*"
         THEN IF acc = << >> \/ acc[Len(acc)].star
              THEN [ok |-> FALSE, prog |-> << >>]
              ELSE CompileFrom(p, i + 1,
                     [acc EXCEPT ![Len(acc)] = [c |-> acc[Len(acc)].c, star |-> TRUE]])
         ELSE IF p[i] \in {"(", ")"}
              THEN [ok |-> FALSE, prog |-> << >>]
              ELSE CompileFrom(p, i + 1, Append(acc, [c |-> p[i], star |-> FALSE]))

\* regexp.Compile
Compile(p) == CompileFrom(p, 1, << >>)

CharMatches(tok, ch) == tok.c = "." \/ tok.c = ch

\* does prog[j..] match a prefix of s[i..]
RECURSIVE MatchHere(_, _, _, _)
MatchHere(prog, j, s, i) ==
    IF j > Len(prog)
    THEN TRUE
    ELSE IF prog[j].star
         THEN \E k \in i .. (Len(s) + 1) :
                 /\ \A m \in i .. (k - 1) : CharMatches(prog[j], s[m])
                 /\ MatchHere(prog, j + 1, s, k)
         ELSE /\ i <= Len(s)
              /\ CharMatches(prog[j], s[i])
              /\ MatchHere(prog, j + 1, s, i + 1)

\* (*Regexp).MatchString: the expression matches anywhere in s
MatchString(prog, s) == \E i \in 1 .. (Len(s) + 1) : MatchHere(prog, 1, s, i)

(***************************************************************************)
(* The include filters.  A filter is the decoded JSON object: a function   *)
(* whose domain holds "hosts" and "zones" when the keys are present, each  *)
(* a function whose domain holds "include" and "exclude" when present.     *)
(***************************************************************************)
\* the loop compiling the values of an include list
CompileAll(values) ==
    IF \E i \in 1 .. Len(values) : ~Compile(values[i]).ok
    THEN [res |-> << >>, err |-> [kind |-> "regexp"]]
    ELSE [res |-> [i \in 1 .. Len(values) |-> Compile(values[i]).prog], err |-> Nil]

\* buildHostNameFilter taking a missing key as "every host"
buildHostNameFilterMatchAll(filter_) ==
    IF "hosts" \notin DOMAIN filter_
    THEN [res |-> << Compile(<< ".", "*" >>).prog >>, err |-> Nil]
    ELSE IF "include" \notin DOMAIN filter_["hosts"]
         THEN [res |-> << Compile(<< ".", "*" >>).prog >>, err |-> Nil]
         ELSE CompileAll(filter_["hosts"]["include"])

buildHostNameFilter(filter_) ==
    IF "hosts" \notin DOMAIN filter_
    THEN [res |-> << >>, err |-> Nil]
    ELSE IF "include" \notin DOMAIN filter_["hosts"]
         THEN [res |-> << >>, err |-> Nil]
         ELSE CompileAll(filter_["hosts"]["include"])

buildZoneFilter(filter_) ==
    IF "zones" \notin DOMAIN filter_
    THEN [res |-> << >>, err |-> Nil]
    ELSE IF "include" \notin DOMAIN filter_["zones"]
         THEN [res |-> << >>, err |-> Nil]
         ELSE CompileAll(filter_["zones"]["include"])

matchedZoneFilter(include, zone) ==
    \E i \in 1 .. Len(include) : MatchString(include[i], zone)

matchedHostnameFilter(include, hostname) ==
    \E i \in 1 .. Len(include) : MatchString(include[i], hostname)

(***************************************************************************)
(* Nodes.  A node of a snapshot is the object the service returned:        *)
(* system id, host name, zone and substatus; hasInt is FALSE when the      *)
(* substatus cannot be read as an integer.                                 *)
(***************************************************************************)
Node(id, hostname, zone, substatus) ==
    [id |-> id, hostname |-> hostname, zone |-> zone,
     substatus |-> substatus, hasInt |-> TRUE]

\* MaasNode{} : the zero value left in the slice when the object of a node
\* could not be retrieved
ZeroNode ==
    [id |-> "", hostname |-> << >>, zone |-> << >>, substatus |-> 0, hasInt |-> FALSE]

\* ProcessNode skipping a node that still has a goroutine in flight
ProcessNodeDedup(node) ==
    IF ~node.hasInt
    THEN [err |-> NoIntError, lookup |-> FALSE, spawn |-> NoAction]
    ELSE LET r == findAction("", StatusString(node.substatus))
         IN  IF r.err # Nil
             THEN [err |-> r.err, lookup |-> TRUE, spawn |-> NoAction]
             ELSE IF \E t \in inflight : t.id = node.id
                  THEN [err |-> Nil, lookup |-> TRUE, spawn |-> NoAction]
                  ELSE [err |-> Nil, lookup |-> TRUE, spawn |-> r.action]

\* ProcessNode: the error it returns, whether findAction was called, and the
\* action started as a goroutine
ProcessNode(node) ==
    IF ~node.hasInt
    THEN [err |-> NoIntError, lookup |-> FALSE, spawn |-> NoAction]
    ELSE LET r == findAction("", StatusString(node.substatus))
         IN  IF r.err # Nil
             THEN [err |-> r.err, lookup |-> TRUE, spawn |-> NoAction]
             ELSE [err |-> Nil, lookup |-> TRUE, spawn |-> r.action]

\* the condition of the loop without the zone test
InScopeHostOnly(includeHosts, includeZones, node) ==
    matchedHostnameFilter(includeHosts, node.hostname)

\* the condition of the loop of ProcessAll
InScope(includeHosts, includeZones, node) ==
    /\ matchedHostnameFilter(includeHosts, node.hostname)
    /\ matchedZoneFilter(includeZones, node.zone)

\* the loop of ProcessAll returning at the first error of ProcessNode
ProcessLoopAbort(nodes_, includeHosts, includeZones) ==
    [i \in 1 .. Len(nodes_) |->
        IF /\ InScope(includeHosts, includeZones, nodes_[i])
           /\ \A k \in 1 .. (i - 1) :
                 InScope(includeHosts, includeZones, nodes_[k])
                    => ProcessNode(nodes_[k]).err = Nil
        THEN ProcessNode(nodes_[i])
        ELSE [err |-> Nil, lookup |-> FALSE, spawn |-> NoAction]]

\* ProcessAll on a filter whose patterns compile: per node the error slot,
\* whether the transition was looked up and the action started
ProcessLoop(nodes_, includeHosts, includeZones) ==
    [i \in 1 .. Len(nodes_) |->
        IF InScope(includeHosts, includeZones, nodes_[i])
        THEN ProcessNode(nodes_[i])
        ELSE [err |-> Nil, lookup |-> FALSE, spawn |-> NoAction]]

\* ProcessAll checking the host patterns only
ProcessAllFatalHostsOnly(filter_) == buildHostNameFilter(filter_).err # Nil

\* log.Fatalf of ProcessAll: an include pattern does not compile
ProcessAllFatal(filter_) ==
    \/ buildHostNameFilter(filter_).err # Nil
    \/ buildZoneFilter(filter_).err # Nil

\* the exclude list of a key of a filter specification, empty when absent
ExcludeListOf(filter_, key) ==
    IF key \in DOMAIN filter_ /\ "exclude" \in DOMAIN filter_[key]
    THEN filter_[key]["exclude"]
    ELSE << >>

\* s matches a pattern of the list that compiles
MatchesExcluded(list, s) ==
    \E k \in 1 .. Len(list) : Compile(list[k]).ok /\ MatchString(Compile(list[k]).prog, s)

\* ProcessAll leaving out the nodes the exclude lists match
ProcessAllExcluding(nodes_, filter_) ==
    LET r == ProcessLoop(nodes_, buildHostNameFilter(filter_).res, buildZoneFilter(filter_).res)
    IN  [i \in 1 .. Len(nodes_) |->
           IF \/ MatchesExcluded(ExcludeListOf(filter_, "hosts"), nodes_[i].hostname)
              \/ MatchesExcluded(ExcludeListOf(filter_, "zones"), nodes_[i].zone)
           THEN [err |-> Nil, lookup |-> FALSE, spawn |-> NoAction]
           ELSE r[i]]

ProcessAll(nodes_, filter_) ==
    ProcessLoop(nodes_, buildHostNameFilter(filter_).res, buildZoneFilter(filter_).res)

(***************************************************************************)
(* The environment: the machines the service knows, in the order it lists  *)
(* them, and the filter specifications the configuration is drawn from.    *)
(***************************************************************************)
HostN1 == << "n", "1" >>
HostX2 == << "x", "2" >>
ZoneDC == << "d", "c" >>
ZoneRB == << "r", "b" >>

Fleet ==
    << [id |-> "node-a", hostname |-> HostN1, zone |-> ZoneDC],
       [id |-> "node-b", hostname |-> HostX2, zone |-> ZoneRB] >>

FleetIds == 1 .. Len(Fleet)

\* the statuses the service reports for each machine of the fleet
LoopStatuses ==
    << {"Ready", "Deployed", "Reserved"},
       {"New", "Allocated", "Reserved"} >>

MachineStates(m) == [substatus : {StatusCode(n) : n \in LoopStatuses[m]}, hasInt : {TRUE}]

Worlds == {w \in [FleetIds -> UNION {MachineStates(m) : m \in FleetIds}] :
              \A m \in FleetIds : w[m] \in MachineStates(m)}

PAny == << ".", "*" >>
PHostN == << "n", ".", "*" >>
PTwo == << "2" >>
PZoneDC == << "d", "c" >>
PZoneRB == << "r", "b" >>
POpen == << "n", "(" >>
PStar == << "*" >>

EmptyMap == [k \in {} |-> << >>]

FilterSpecs ==
    << \* the shape of the default: every host of zone dc
       [hosts |-> [include |-> << PAny >>, exclude |-> << >>],
        zones |-> [include |-> << PZoneDC >>, exclude |-> << >>]],
       \* hosts by name, every zone
       [hosts |-> [include |-> << PHostN >>], zones |-> [include |-> << PAny >>]],
       \* everything
       [hosts |-> [include |-> << PAny >>], zones |-> [include |-> << PAny >>]],
       \* several patterns per list, and exclude lists that match the machines
       [hosts |-> [include |-> << PTwo, PHostN >>, exclude |-> << PHostN >>],
        zones |-> [include |-> << PZoneRB, PZoneDC >>, exclude |-> << PZoneRB >>]],
       \* no hosts key
       [zones |-> [include |-> << PZoneDC >>]],
       \* no zones key
       [hosts |-> [include |-> << PAny >>]],
       \* no key at all
       EmptyMap,
       \* hosts without include
       [hosts |-> [exclude |-> << PTwo >>], zones |-> [include |-> << PAny >>]],
       \* empty include lists
       [hosts |-> [include |-> << >>], zones |-> [include |-> << PAny >>]],
       [hosts |-> [include |-> << PAny >>], zones |-> [include |-> << >>]],
       \* patterns that do not compile
       [hosts |-> [include |-> << PAny, POpen >>], zones |-> [include |-> << PAny >>]],
       [hosts |-> [include |-> << PAny >>], zones |-> [include |-> << PStar >>]] >>

\* the inputs of the lookup taken alone: every status name, the empty
\* target ProcessNode passes, and names that are no status
LookupTargets == {StatusNames[i] : i \in 1 .. Len(StatusNames)} \cup {""}

LookupCurrents ==
    {StatusNames[i] : i \in 1 .. Len(StatusNames)}
      \cup {"Reserverd", "FailedEraseDisk", "Invalid", ""}

Pending == [action |-> NoAction, err |-> [kind |-> "pending"]]

LogLine(kind, msg, idx) == [kind |-> kind, msg |-> msg, idx |-> idx, cycle |-> cycle]

LoopInit ==
    /\ pc = "parse_period"
    /\ cycle = 0
    /\ nodes = << >>
    /\ fetchFailed = FALSE
    /\ errors = << >>
    /\ lookedUp = {}
    /\ dispatched = << >>
    /\ prevDispatched = << >>
    /\ sameSnapshot = FALSE
    /\ inflight = {}
    /\ calls = {}
    /\ log = {}
    /\ tickerC = "unset"
    /\ passes = 0

Init ==
    /\ preview \in BOOLEAN
    /\ \E k \in 1 .. Len(FilterSpecs) : filter = FilterSpecs[k]
    /\ world \in Worlds
    /\ LoopInit
    /\ probeTarget = ""
    /\ probeCurrent = ""
    /\ probeResult = Pending

(***************************************************************************)
(* main                                                                    *)
(***************************************************************************)
\* log.Fatalf: the line is written and the process exits, its goroutines with it
Fatal(msg) ==
    /\ pc' = "fatal"
    /\ inflight' = {}
    /\ log' = log \cup {LogLine("error", msg, 0)}

\* time.ParseDuration(config.QueryPeriod) and its checkError
ParseDuration ==
    /\ pc = "parse_period"
    /\ \E ok \in BOOLEAN :
          IF ok
          THEN /\ pc' = "authenticate"
               /\ UNCHANGED << inflight, log >>
          ELSE Fatal("unable to parse specified query period duration")
    /\ UNCHANGED << configVars, world, cycle, passVars, calls, tickVars, probeVars >>

\* maas.NewAuthenticatedClient and its checkError
Authenticate ==
    /\ pc = "authenticate"
    /\ \E ok \in BOOLEAN :
          IF ok
          THEN /\ pc' = "fetch"
               /\ passes' = passes + 1
               /\ UNCHANGED << inflight, log >>
          ELSE /\ Fatal("Unable to use specified client key")
               /\ UNCHANGED passes
    /\ UNCHANGED << configVars, world, cycle, passVars, calls, tickerC, probeVars >>

\* fetchNodes going on to build the slice after GetArray failed
fetchNodesNoReturn(outcome, bad) ==
    CASE outcome = "get_failed" ->
           [nodes |-> << >>, err |-> [kind |-> "get"],
            warns |-> {LogLine("warn", "unable to get the list of all nodes", 0)}]
      [] OTHER ->
           [nodes |-> [k \in 1 .. Len(Fleet) |->
                         [id |-> Fleet[k].id,
                          hostname |-> Fleet[k].hostname,
                          zone |-> Fleet[k].zone,
                          substatus |-> world[k].substatus,
                          hasInt |-> world[k].hasInt]],
            err |-> IF outcome = "array_failed" THEN [kind |-> "array"] ELSE Nil,
            warns |-> IF outcome = "array_failed"
                      THEN {LogLine("warn", "unable to get the node objects for the list", 0)}
                      ELSE {}]

\* fetchNodes: outcome is what the two calls to the service answer, bad the
\* positions whose object cannot be retrieved
fetchNodes(outcome, bad) ==
    CASE outcome = "get_failed" ->
           [nodes |-> << >>, err |-> [kind |-> "get"],
            warns |-> {LogLine("warn", "unable to get the list of all nodes", 0)}]
      [] outcome = "array_failed" ->
           [nodes |-> << >>, err |-> [kind |-> "array"],
            warns |-> {LogLine("warn", "unable to get the node objects for the list", 0)}]
      [] OTHER ->
           [nodes |-> [k \in 1 .. Len(Fleet) |->
                         IF k \in bad
                         THEN ZeroNode
                         ELSE [id |-> Fleet[k].id,
                               hostname |-> Fleet[k].hostname,
                               zone |-> Fleet[k].zone,
                               substatus |-> world[k].substatus,
                               hasInt |-> world[k].hasInt]],
            err |-> Nil,
            warns |-> {LogLine("warn", "unable to retrieve object for node", k) : k \in bad}]

\* nodes, _ := fetchNodes(client); the passes observed are MaxCycles at most
FetchNodes ==
    /\ pc = "fetch"
    /\ cycle < MaxCycles
    /\ \E outcome \in {"ok", "get_failed", "array_failed"}, bad \in SUBSET (1 .. Len(Fleet)) :
          /\ outcome # "ok" => bad = {}
          /\ LET r == fetchNodes(outcome, bad)
             IN  /\ nodes' = r.nodes
                 /\ fetchFailed' = (r.err # Nil)
                 /\ log' = r.warns
                 /\ sameSnapshot' = (cycle >= 1 /\ r.nodes = nodes)
    /\ prevDispatched' = dispatched
    /\ cycle' = cycle + 1
    /\ calls' = {}
    /\ pc' = "process"
    /\ UNCHANGED << configVars, world, errors, lookedUp, dispatched, inflight, tickVars,
                    probeVars >>

\* the goroutines ProcessAll starts
Spawned(res) ==
    {[cycle |-> cycle, idx |-> i, id |-> nodes[i].id, hostname |-> nodes[i].hostname,
      action |-> res[i].spawn] : i \in {j \in 1 .. Len(nodes) : res[j].spawn # NoAction}}

\* the lines ProcessAll logs for the nodes it ignores
Ignored(res, hosts, zones) ==
    {LogLine("info", "ignoring node as it didn't match include filter", i) :
        i \in {j \in 1 .. Len(nodes) : ~InScope(hosts, zones, nodes[j])}}

\* if !(config.Preview): where main goes when ProcessAll has returned
AfterPassAlwaysTicker(preview_) == "ticker"

\* main leaving the loop after a pass whose fetch failed
AfterPassStopOnError(preview_) == IF preview_ \/ fetchFailed THEN "returning" ELSE "ticker"

AfterPass(preview_) == IF preview_ THEN "returning" ELSE "ticker"

\* ProcessAll(client, nodes, options), then the test of config.Preview and,
\* the first time it is false, time.NewTicker.
\* main hands over the processing options; ProcessAll reads the keys "hosts"
\* and "zones" of its argument, here the decoded filter specification, and
\* nothing else of it (neither Preview nor the exclude lists).
ProcessAllStep ==
    /\ pc = "process"
    /\ IF ProcessAllFatal(filter)
       THEN /\ Fatal("invalid regular expression for include filter")
            /\ UNCHANGED << errors, lookedUp, dispatched, tickVars >>
       ELSE LET res == ProcessAll(nodes, filter)
            IN  /\ errors' = [i \in 1 .. Len(nodes) |-> res[i].err]
                /\ lookedUp' = {i \in 1 .. Len(nodes) : res[i].lookup}
                /\ dispatched' = [i \in 1 .. Len(nodes) |-> res[i].spawn]
                /\ inflight' = inflight \cup Spawned(res)
                /\ log' = log \cup Ignored(res, buildHostNameFilter(filter).res,
                                           buildZoneFilter(filter).res)
                /\ pc' = AfterPass(preview)
                /\ passes' = passes - 1
                /\ tickerC' = IF AfterPass(preview) = "ticker" /\ tickerC = "unset"
                              THEN "empty"
                              ELSE tickerC
    /\ UNCHANGED << configVars, world, cycle, nodes, fetchFailed, prevDispatched,
                    sameSnapshot, calls, probeVars >>

\* the loop taking a tick while ProcessAll of the pass before is running
TickOverlapping ==
    /\ pc \in {"ticker", "process"}
    /\ tickerC = "full"
    /\ pc' = "fetch"
    /\ tickerC' = "empty"
    /\ passes' = passes + 1
    /\ UNCHANGED << configVars, world, cycle, passVars, inflight, calls, log, probeVars >>

\* the loop taking a tick only when no action goroutine is left
TickWaitsForActions ==
    /\ pc = "ticker"
    /\ tickerC = "full"
    /\ inflight = {}
    /\ pc' = "fetch"
    /\ tickerC' = "empty"
    /\ passes' = passes + 1
    /\ UNCHANGED << configVars, world, cycle, passVars, inflight, calls, log, probeVars >>

\* for t := range ticker.C: main, back at the head of the loop, receives the
\* tick held by the channel and starts a pass
Tick ==
    /\ pc = "ticker"
    /\ tickerC = "full"
    /\ pc' = "fetch"
    /\ tickerC' = "empty"
    /\ passes' = passes + 1
    /\ UNCHANGED << configVars, world, cycle, passVars, inflight, calls, log, probeVars >>

\* the runtime timer of the ticker: the period has elapsed and the tick is
\* sent without blocking to the channel, whose buffer holds one tick; with
\* the buffer full the tick is dropped, which changes nothing
TickerFire ==
    /\ pc \notin {"fatal", "exited"}
    /\ tickerC = "empty"
    /\ tickerC' = "full"
    /\ UNCHANGED << configVars, world, pc, cycle, passVars, inflight, calls, log, passes,
                    probeVars >>

\* main returns in preview mode: the process exits, its goroutines with it
MainReturn ==
    /\ pc = "returning"
    /\ pc' = "exited"
    /\ inflight' = {}
    /\ UNCHANGED << configVars, world, cycle, passVars, calls, log, tickVars, probeVars >>

(***************************************************************************)
(* The action goroutines.                                                  *)
(***************************************************************************)
\* go action(client, node): the action logs its line and, for Deploy,
\* Aquire and Comission, posts the operation; failed is the answer of the
\* service.  The error the action returns is dropped by the go statement.
RunAction ==
    /\ pc \notin {"fatal", "exited"}
    /\ \E t \in inflight, failed \in BOOLEAN :
          /\ RemoteOp(t.action) = "none" => ~failed
          /\ inflight' = inflight \ {t}
          /\ log' = IF t.cycle # cycle
                    THEN log
                    ELSE log \cup {[kind |-> "action", msg |-> ActionLogTag(t.action),
                                    idx |-> t.idx, cycle |-> t.cycle]}
          /\ calls' = IF RemoteOp(t.action) = "none" \/ t.cycle # cycle
                      THEN calls
                      ELSE calls \cup {[op |-> RemoteOp(t.action), id |-> t.id,
                                        hostname |-> t.hostname, idx |-> t.idx,
                                        cycle |-> t.cycle, failed |-> failed]}
    /\ UNCHANGED << configVars, world, pc, cycle, passVars, tickVars, probeVars >>

(***************************************************************************)
(* The service.  The program reads the machines only in fetchNodes, so the *)
(* changes made between two fetches are taken while main waits for a tick. *)
(***************************************************************************)
ServiceChange ==
    /\ pc = "ticker"
    /\ cycle < MaxCycles
    /\ \E m \in FleetIds :
          \E st \in MachineStates(m) :
             /\ st # world[m]
             /\ world' = [world EXCEPT ![m] = st]
    /\ UNCHANGED << configVars, pc, cycle, passVars, inflight, calls, log, tickVars,
                    probeVars >>

Next ==
    \/ ParseDuration
    \/ Authenticate
    \/ FetchNodes
    \/ ProcessAllStep
    \/ Tick
    \/ TickerFire
    \/ MainReturn
    \/ RunAction
    \/ ServiceChange

Spec == Init /\ [][Next]_vars

(***************************************************************************)
(* The first pass taken alone: the run of main up to the end of its first  *)
(* ProcessAll, with the goroutines that pass starts, for every filter       *)
(* specification, every state of the service and every answer to the fetch. *)
(***************************************************************************)
FirstPassNext ==
    \/ ParseDuration
    \/ Authenticate
    \/ FetchNodes
    \/ ProcessAllStep
    \/ MainReturn
    \/ RunAction

FirstPassSpec == Init /\ [][FirstPassNext]_vars

(***************************************************************************)
(* The lookup taken alone: findAction applied to every pair of inputs.     *)
(***************************************************************************)
LookupInit ==
    /\ preview = FALSE
    /\ filter = FilterSpecs[1]
    /\ world = [i \in FleetIds |-> [substatus |-> 0, hasInt |-> TRUE]]
    /\ LoopInit
    /\ probeTarget \in LookupTargets
    /\ probeCurrent \in LookupCurrents
    /\ probeResult = Pending

Lookup ==
    /\ probeResult = Pending
    /\ probeResult' = findAction(probeTarget, probeCurrent)
    /\ UNCHANGED << configVars, world, pc, cycle, passVars, inflight, calls, log,
                    tickVars, probeTarget, probeCurrent >>

LookupNext == Lookup

LookupSpec == LookupInit /\ [][LookupNext]_vars

(***************************************************************************)
(* Progress.  The loop with a service that accepts every operation and     *)
(* moves the machines along the success edges of the reference graph.      *)
(* Start-up has succeeded, every fetch succeeds, and the history of the     *)
(* run is not kept: the passes are not counted (cycle stays at 1 once the   *)
(* first snapshot is fetched), and the lines logged, the calls made and the *)
(* dispatches of the pass before are not recorded.                          *)
(***************************************************************************)
\* (New)->(Commissioning)->(Ready)->(Allocated)->(Deploying)->(Deployed) of
\* defaultStateMachine: the status an accepted operation leads to
OperationEdge(op, status) ==
    CASE op = "commission" /\ status = "New" -> "Commissioning"
      [] op = "acquire" /\ status = "Ready" -> "Allocated"
      [] op = "start" /\ status = "Allocated" -> "Deploying"
      [] OTHER -> status

\* the status the service moves a machine to when its own work is done
CompletionEdge(status) ==
    CASE status = "Commissioning" -> "Ready"
      [] status = "Deploying" -> "Deployed"
      [] OTHER -> status

\* the status the service holds for machine m
StatusOf(m) == StatusString(world[m].substatus)

\* the machine an operation of goroutine t is posted for: Aquire names the
\* host, Deploy and Comission the system id
TargetOf(t) ==
    IF t.action = "Aquire"
    THEN CHOOSE m \in FleetIds : Fleet[m].hostname = t.hostname
    ELSE CHOOSE m \in FleetIds : Fleet[m].id = t.id

ProgressStatuses == {"New", "Ready", "Allocated"}

ProgressInit ==
    /\ preview = FALSE
    /\ filter \in {FilterSpecs[1], FilterSpecs[2]}
    /\ world \in [FleetIds -> [substatus : {StatusCode(n) : n \in ProgressStatuses},
                               hasInt : {TRUE}]]
    /\ world[Len(Fleet)].substatus = StatusCode("New")
    /\ pc = "fetch"
    /\ cycle = 0
    /\ nodes = << >>
    /\ fetchFailed = FALSE
    /\ errors = << >>
    /\ lookedUp = {}
    /\ dispatched = << >>
    /\ prevDispatched = << >>
    /\ sameSnapshot = FALSE
    /\ inflight = {}
    /\ calls = {}
    /\ log = {}
    /\ tickerC = "unset"
    /\ passes = 1
    /\ probeTarget = ""
    /\ probeCurrent = ""
    /\ probeResult = Pending

\* nodes, _ := fetchNodes(client), the service answering
FetchNodesOk ==
    /\ pc = "fetch"
    /\ LET r == fetchNodes("ok", {})
       IN  /\ nodes' = r.nodes
           /\ fetchFailed' = (r.err # Nil)
    /\ cycle' = 1
    /\ pc' = "process"
    /\ UNCHANGED << configVars, world, errors, lookedUp, dispatched, prevDispatched,
                    sameSnapshot, inflight, calls, log, tickVars, probeVars >>

\* a goroutine of action a runs; the service accepts the operation it posts
RunActionAccepted(a) ==
    \E t \in inflight :
       /\ t.action = a
       /\ inflight' = inflight \ {t}
       /\ world' = IF RemoteOp(t.action) = "none"
                   THEN world
                   ELSE [world EXCEPT ![TargetOf(t)].substatus =
                            StatusCode(OperationEdge(RemoteOp(t.action),
                                                     StatusOf(TargetOf(t))))]
       /\ UNCHANGED << configVars, pc, cycle, passVars, calls, log, tickVars, probeVars >>

\* the service finishes commissioning or deploying machine m
ServiceAdvance(m) ==
    /\ CompletionEdge(StatusOf(m)) # StatusOf(m)
    /\ world' = [world EXCEPT ![m].substatus = StatusCode(CompletionEdge(StatusOf(m)))]
    /\ UNCHANGED << configVars, pc, cycle, passVars, inflight, calls, log, tickVars,
                    probeVars >>

ProgressNext ==
    \/ FetchNodesOk
    \/ ProcessAllStep
    \/ Tick
    \/ TickerFire
    \/ \E a \in ActionNames : RunActionAccepted(a)
    \/ \E m \in FleetIds : ServiceAdvance(m)

\* main runs when it can, the ticker keeps firing, every goroutine that
\* posts an operation gets to run, and the service finishes what it started
ProgressSpec ==
    /\ ProgressInit
    /\ [][ProgressNext]_vars
    /\ WF_vars(FetchNodesOk \/ ProcessAllStep \/ Tick)
    /\ WF_vars(TickerFire)
    /\ \A a \in {"Aquire", "Deploy", "Comission"} : WF_vars(RunActionAccepted(a))
    /\ \A m \in FleetIds : WF_vars(ServiceAdvance(m))

(***************************************************************************)
(* Properties.                                                             *)
(***************************************************************************)
\* ProcessAll of the current pass has returned
PassDone == pc \in {"ticker", "returning", "exited"}

\* the table has a record whose Current is the status
HasEntry(status) == \E i \in 1 .. Len(Transitions) : Transitions[i].Current = status

\* the records whose Current is the status
EntriesFor(status) == {i \in 1 .. Len(Transitions) : Transitions[i].Current = status}

\* the action of the first record whose Current is the status
FirstEntryAction(status) ==
    Transitions[CHOOSE i \in EntriesFor(status) : \A k \in EntriesFor(status) : i <= k].Using

\* the actions the claim C1 documents, under the names the code gives them
\* (Aquire is Acquire, Comission is Commission)
DocumentedAction ==
    [Ready |-> "Aquire", Allocated |-> "Deploy", New |-> "Comission",
     Deployed |-> "Done", Releasing |-> "Wait", DiskErasing |-> "Wait",
     Deploying |-> "Wait", Commissioning |-> "Wait", Retired |-> "AdminState"]

\* the include list of a key of the filter specification, empty when absent
IncludeList(key) ==
    IF key \in DOMAIN filter /\ "include" \in DOMAIN filter[key]
    THEN filter[key]["include"]
    ELSE << >>

\* s matches at least one pattern of the list
MatchesOne(list, s) ==
    \E k \in 1 .. Len(list) : Compile(list[k]).ok /\ MatchString(Compile(list[k]).prog, s)

\* node i of the snapshot satisfies the include lists of the filter
Included(i) ==
    /\ MatchesOne(IncludeList("hosts"), nodes[i].hostname)
    /\ MatchesOne(IncludeList("zones"), nodes[i].zone)

\* ProcessAll handed node i to ProcessNode
Processed(i) == i \in lookedUp \/ errors[i] # Nil \/ dispatched[i] # NoAction

\* a goroutine of the current pass for node i is in flight, or has called the service
Acted(i) ==
    \/ \E t \in inflight : t.cycle = cycle /\ t.idx = i
    \/ \E c \in calls : c.cycle = cycle /\ c.idx = i

\* the line ProcessAll logs for a node it ignores
IgnoredLine(i) ==
    \E e \in log : e.kind = "info" /\ e.idx = i /\ e.cycle = cycle

\* C1: for every status with a record in the transition table, findAction
\* returns the action of the first record whose Current equals the status,
\* with a nil error; for the statuses the claim lists this is the listed action
C1_LookupReturnsFirstEntry ==
    (probeResult # Pending /\ HasEntry(probeCurrent)) =>
        /\ probeResult.err = Nil
        /\ probeResult.action = FirstEntryAction(probeCurrent)
        /\ probeCurrent \in DOMAIN DocumentedAction =>
              probeResult.action = DocumentedAction[probeCurrent]

C1_Witness ==
    /\ probeResult # Pending
    /\ probeCurrent = "Ready"
    /\ probeTarget = "Deployed"
    /\ probeResult.action = "Aquire"

\* C2: once ProcessAll has returned, a node was handed to ProcessNode only if
\* its host name matches an include pattern of hosts and its zone an include
\* pattern of zones; with an include list empty or absent no node is
\* processed and no action is started
C2_InScopeOnlyIfBothMatch ==
    PassDone =>
        /\ \A i \in 1 .. Len(nodes) : (Processed(i) \/ Acted(i)) => Included(i)
        /\ (IncludeList("hosts") = << >> \/ IncludeList("zones") = << >>) =>
              /\ lookedUp = {}
              /\ \A i \in 1 .. Len(nodes) : dispatched[i] = NoAction /\ errors[i] = Nil
              /\ \A t \in inflight : t.cycle # cycle
              /\ calls = {}

C2_Witness ==
    /\ PassDone
    /\ Len(nodes) = 2
    /\ nodes[1].hostname = HostN1 /\ nodes[2].hostname = HostX2
    /\ IncludeList("hosts") = << PHostN >>
    /\ dispatched[1] = "Aquire"
    /\ ~Processed(2)
    /\ IgnoredLine(2)

\* C3: in preview mode no goroutine posts commission, acquire or start
C3_PreviewNoRemoteCall ==
    preview => calls = {}

\* C4: every status of the enumeration has exactly one record whose Current
\* is the status, and findAction succeeds for it
C4_EveryStatusHasOneEntry ==
    (probeResult # Pending /\ \E i \in 1 .. Len(StatusNames) : StatusNames[i] = probeCurrent) =>
        /\ Cardinality(EntriesFor(probeCurrent)) = 1
        /\ probeResult.err = Nil

\* C5: for a status without a record findAction returns the no-transition
\* error and no action; ProcessAll starts no action for such a node and
\* stores the error in the slot of the node
C5_NoRouteRecorded ==
    /\ \A c \in LookupCurrents :
          ~HasEntry(c) =>
             /\ findAction("", c).err = NoRouteError(c)
             /\ findAction("", c).action = NoAction
    /\ PassDone =>
          \A i \in 1 .. Len(nodes) :
             (/\ Included(i)
              /\ nodes[i].hasInt
              /\ ~HasEntry(StatusString(nodes[i].substatus))) =>
                /\ errors[i] = NoRouteError(StatusString(nodes[i].substatus))
                /\ dispatched[i] = NoAction
                /\ ~Acted(i)

C5_Witness ==
    /\ PassDone
    /\ \E i \in 1 .. Len(nodes) :
          /\ Included(i)
          /\ nodes[i].hasInt
          /\ StatusString(nodes[i].substatus) = "Reserved"
          /\ errors[i] = NoRouteError("Reserved")

\* C6: an error of ProcessNode for one node leaves the other nodes of the
\* snapshot alone: every other node in scope with a readable status that has
\* a record is looked up and its action started, before or after the failing
\* node
C6_ErrorDoesNotAbort ==
    PassDone =>
        \A i, j \in 1 .. Len(nodes) :
           (/\ i # j
            /\ errors[i] # Nil
            /\ Included(j)
            /\ nodes[j].hasInt
            /\ HasEntry(StatusString(nodes[j].substatus))) =>
              /\ j \in lookedUp
              /\ errors[j] = Nil
              /\ dispatched[j] = FirstEntryAction(StatusString(nodes[j].substatus))

C6_Witness ==
    /\ PassDone
    /\ Len(nodes) = 2
    /\ errors[1] = NoIntError
    /\ dispatched[2] = "Comission"

\* C7: a pass whose snapshot equals the snapshot of the pass before it starts
\* the same actions for the same nodes, whatever is still in flight
C7_SameSnapshotSameDispatch ==
    (PassDone /\ cycle >= 2 /\ sameSnapshot) => dispatched = prevDispatched

C7_Witness ==
    /\ PassDone
    /\ cycle = 2
    /\ sameSnapshot
    /\ Len(nodes) = 2
    /\ dispatched[1] = "Aquire"
    /\ \E t \in inflight : t.cycle = 1 /\ t.idx = 1
    /\ \E t \in inflight : t.cycle = 2 /\ t.idx = 1

\* C8: when the fetch of a pass fails, exactly one warning is logged for the
\* pass, no action is started in it and ProcessAll returns an empty slice
C8_FetchFailureNoDispatch ==
    fetchFailed =>
        /\ Cardinality({e \in log : e.kind = "warn"}) = 1
        /\ \A t \in inflight : t.cycle # cycle
        /\ calls = {}
        /\ PassDone => (errors = << >> /\ dispatched = << >> /\ lookedUp = {})

C8_Witness ==
    /\ fetchFailed
    /\ PassDone
    /\ cycle = 2
    /\ Len(prevDispatched) = 2
    /\ prevDispatched[1] = "Aquire"

\* C9: a failed remote call of an action of the current pass is logged and
\* stored in the slot of its node
C9_FailureCollected ==
    PassDone =>
        \A c \in calls :
           c.failed =>
              /\ errors[c.idx] # Nil
              /\ \E e \in log : e.kind \in {"warn", "error"} /\ e.idx = c.idx

\* C10: a node that fails the filter is not looked up, gets no action and no
\* error, and is logged as ignored
C10_FilteredOutSkipped ==
    PassDone =>
        \A i \in 1 .. Len(nodes) :
           ~Included(i) =>
              /\ i \notin lookedUp
              /\ dispatched[i] = NoAction
              /\ errors[i] = Nil
              /\ ~Acted(i)
              /\ IgnoredLine(i)

C10_Witness ==
    /\ PassDone
    /\ Len(nodes) = 2
    /\ MatchesOne(IncludeList("hosts"), nodes[2].hostname)
    /\ ~MatchesOne(IncludeList("zones"), nodes[2].zone)
    /\ nodes[2].hasInt
    /\ errors[2] = Nil
    /\ dispatched[1] = "Done"

\* C11 as stated: for a Broken machine findAction selects AdminState or an
\* action that recovers the machine (one that posts an operation), and the
\* action selected posts nothing to the service
C11_BrokenAdminState ==
    (probeResult # Pending /\ probeCurrent = "Broken") =>
        /\ \/ probeResult.action = "AdminState"
           \/ RemoteOp(probeResult.action) # "none"
        /\ RemoteOp(probeResult.action) = "none"

\* C11 amended: for a Broken machine findAction selects Fail with a nil
\* error, an action that logs its FAIL line and posts nothing to the service
C11_BrokenFailNoRemoteCall ==
    (probeResult # Pending /\ probeCurrent = "Broken") =>
        /\ probeResult.err = Nil
        /\ probeResult.action = "Fail"
        /\ RemoteOp(probeResult.action) = "none"
        /\ ActionLogTag(probeResult.action) = "FAIL"

C11_Witness ==
    /\ probeResult # Pending
    /\ probeCurrent = "Broken"
    /\ probeTarget = ""
    /\ probeResult.action = "Fail"

\* the first pass: its fetch and its ProcessAll
InFirstPass == (cycle = 0 /\ pc = "fetch") \/ (cycle = 1 /\ pc = "process")

\* a step of main that starts a pass
StartsPass == passes' = passes + 1

\* a step in which main receives a tick from the channel
ReceivesTick == tickerC = "full" /\ tickerC' = "empty"

\* C12: one pass runs before the ticker exists; after that a pass starts
\* exactly when main receives a tick, each pass fetching once and then
\* processing once; in preview mode the ticker is never created, no pass
\* follows the first and main is free to return, which ends the process
C12_CadenceState ==
    /\ (cycle = 0 \/ InFirstPass) => tickerC = "unset"
    /\ (~preview /\ PassDone) => (pc = "ticker" /\ tickerC # "unset")
    /\ preview => (tickerC = "unset" /\ cycle <= 1 /\ pc # "ticker")
    /\ (preview /\ PassDone) => pc \in {"returning", "exited"}
    /\ pc = "returning" => ENABLED MainReturn
    /\ (pc = "ticker" /\ tickerC = "full") => ENABLED Tick
    /\ (pc = "fetch" /\ cycle < MaxCycles) => ENABLED FetchNodes

C12_CadenceStep ==
    /\ StartsPass <=> (ReceivesTick \/ (pc = "authenticate" /\ pc' = "fetch"))
    /\ ReceivesTick => (~preview /\ pc = "ticker" /\ pc' = "fetch")
    /\ cycle' # cycle => (pc = "fetch" /\ pc' = "process" /\ cycle' = cycle + 1)
    /\ (pc = "fetch" /\ pc' # pc) => pc' = "process"
    /\ (pc = "process" /\ pc' # pc) => pc' \in {"ticker", "returning", "fatal"}

C12_Cadence ==
    /\ []C12_CadenceState
    /\ [][C12_CadenceStep]_vars

C12_Witness ==
    /\ ~preview
    /\ cycle = 2
    /\ pc = "ticker"
    /\ tickerC = "full"
    /\ passes = 0

\* an include pattern of the filter specification is not a regular expression
MalformedInclude ==
    \E key \in {"hosts", "zones"} :
       \E k \in 1 .. Len(IncludeList(key)) : ~Compile(IncludeList(key)[k]).ok

\* the messages of the fatal errors main logs before its first fetch
StartupFatalMsgs ==
    {"unable to parse specified query period duration", "Unable to use specified client key"}

\* the process was ended by log.Fatalf with one of the messages
FatalWith(msgs) == pc = "fatal" /\ \E l \in log : l.kind = "error" /\ l.msg \in msgs

\* no action has been started and no operation posted
NothingDispatched == dispatched = << >> /\ inflight = {} /\ calls = {}

TaskOf(c, i) ==
    [cycle |-> c, idx |-> i, id |-> nodes'[i].id, hostname |-> nodes'[i].hostname,
     action |-> dispatched'[i]]

\* ProcessAll returns having started one goroutine for every node it
\* dispatched an action for, those of earlier passes still in flight
C14_DispatchStep ==
    (pc = "process" /\ pc' \in {"ticker", "returning"}) =>
        /\ inflight \subseteq inflight'
        /\ \A i \in 1 .. Len(dispatched') :
              dispatched'[i] # NoAction => TaskOf(cycle, i) \in inflight'
        /\ Cardinality(inflight' \ inflight) =
              Cardinality({i \in 1 .. Len(dispatched') : dispatched'[i] # NoAction})

\* main receiving a tick or fetching leaves the goroutines alone, and a
\* goroutine leaves the set only by running, or with the process
C14_NoWaitNoCancel ==
    /\ ((pc = "ticker" /\ pc' = "fetch") \/ (pc = "fetch" /\ pc' = "process")) =>
          inflight' = inflight
    /\ inflight' # inflight =>
          \/ pc = "process"
          \/ pc' \in {"fatal", "exited"}
          \/ pc' = pc /\ \E t \in inflight : inflight' = inflight \ {t}

\* C14: every dispatched action is a goroutine of its own that main does not
\* wait for: with goroutines in flight main still takes the next tick, and a
\* pass adds its goroutines to those of earlier passes without removing any
C14_FireAndForget ==
    /\ []((pc = "ticker" /\ tickerC = "full" /\ inflight # {}) => ENABLED Tick)
    /\ []((pc = "fetch" /\ cycle < MaxCycles /\ inflight # {}) => ENABLED FetchNodes)
    /\ [][C14_DispatchStep /\ C14_NoWaitNoCancel]_vars

\* two goroutines for the same machine in flight, one of the first pass and
\* one of the second, each about to post an operation
C14_Witness ==
    /\ cycle = 2
    /\ pc = "ticker"
    /\ \E t1 \in inflight, t2 \in inflight :
          /\ t1.id = t2.id
          /\ t1.cycle = 1
          /\ t2.cycle = 2
          /\ RemoteOp(t1.action) # "none"
          /\ RemoteOp(t2.action) # "none"
    /\ \E t1 \in inflight, t2 \in inflight : t1.cycle = t2.cycle /\ t1.id # t2.id

\* a pass is in progress: main is in fetchNodes or in ProcessAll
PassInProgress == passes >= 1 /\ pc \in {"fetch", "process"}

\* C15 as stated: nothing keeps a second pass from starting while a pass is
\* in progress, so a tick that has fired during a pass can be taken at once
C15_OverlapPossible ==
    (PassInProgress /\ tickerC = "full") => ENABLED Tick

\* a tick is received only between two passes, and a tick that fired during
\* a pass stays in the channel until the pass is over
C15_TickHeldStep ==
    /\ ReceivesTick => (passes = 0 /\ pc = "ticker" /\ passes' = 1)
    /\ (PassInProgress /\ tickerC = "full" /\ pc' \in {"fetch", "process"}) => tickerC' = "full"

\* C15 amended: passes never overlap; main runs fetchNodes and ProcessAll
\* itself, so at most one pass is in progress, and a tick that fires during
\* a pass is held by the channel and starts the next pass only once main is
\* back at the head of the loop
C15_PassesNeverOverlap ==
    /\ [](passes \in {0, 1})
    /\ [](pc \in {"fetch", "process"} => passes = 1)
    /\ [](pc \in {"ticker", "returning", "exited"} => passes = 0)
    /\ []((PassInProgress /\ tickerC = "full") => ~ENABLED Tick)
    /\ [][C15_TickHeldStep]_vars

C15_Witness ==
    /\ pc = "process"
    /\ cycle = 2
    /\ passes = 1
    /\ tickerC = "full"
    /\ inflight # {}

\* the current pass met an error: its fetch failed, ProcessNode returned an
\* error for a node, or an operation posted by one of its goroutines failed
PassHadError ==
    \/ fetchFailed
    \/ \E i \in 1 .. Len(errors) : errors[i] # Nil
    \/ \E c \in calls : c.failed

\* the goroutines and the calls of the current pass for position i
AttemptsFor(i) ==
    Cardinality({t \in inflight : t.cycle = cycle /\ t.idx = i})
        + Cardinality({c \in calls : c.idx = i})

C16_LoopState ==
    /\ (~preview /\ ~MalformedInclude /\ cycle >= 1) => pc \in {"ticker", "fetch", "process"}
    /\ (~preview /\ PassDone /\ PassHadError) =>
          /\ pc = "ticker"
          /\ tickerC \in {"empty", "full"}
          /\ tickerC = "empty" => ENABLED TickerFire
          /\ tickerC = "full" => ENABLED Tick
    /\ (~preview /\ pc = "fetch" /\ cycle < MaxCycles) => ENABLED FetchNodes
    /\ \A i \in 1 .. Len(Fleet) : AttemptsFor(i) <= 1

C16_LoopStep ==
    /\ (pc = "fetch" /\ pc' = "process" /\ ~fetchFailed') =>
          /\ Len(nodes') = Len(Fleet)
          /\ \A k \in 1 .. Len(Fleet) :
                \/ nodes'[k] = ZeroNode
                \/ /\ nodes'[k].id = Fleet[k].id
                   /\ nodes'[k].substatus = world[k].substatus
    /\ (pc = "process" /\ pc' # pc) => pc' \in {"ticker", "returning", "fatal"}
    /\ (~preview /\ pc = "process" /\ pc' \notin {pc, "fatal"}) =>
          /\ pc' = "ticker"
          /\ Len(errors') = Len(nodes)
          /\ Len(dispatched') = Len(nodes)
          /\ \A i \in 1 .. Len(nodes) :
                (nodes[i] # ZeroNode /\ Included(i)) => (i \in lookedUp' \/ errors'[i] # Nil)
    /\ (pc' = "fetch" /\ pc # pc') => pc \in {"authenticate", "ticker"}
    /\ (pc = "ticker" /\ pc' = "fetch") => cycle' = cycle
    /\ (pc # "fetch" /\ cycle' = cycle) => UNCHANGED << nodes, fetchFailed >>

\* C16: without preview, once the first pass is over no error ends the loop:
\* after a pass whose fetch failed, or in which a lookup or an action failed,
\* main waits for the tick, takes it, fetches the machines anew and processes
\* what it fetched; within a pass the fetch is done once and an action is
\* attempted once for a machine
C16_ErrorsDoNotEndLoop ==
    /\ []C16_LoopState
    /\ [][C16_LoopStep]_vars

\* the first pass failed to fetch, the second fetched the machines and
\* dispatched an action whose operation then failed; main is waiting for the
\* next tick
C16_Witness ==
    /\ ~preview
    /\ cycle = 2
    /\ pc = "ticker"
    /\ prevDispatched = << >>
    /\ ~fetchFailed
    /\ Len(nodes) = Len(Fleet)
    /\ \E c \in calls : c.failed
    /\ \E i \in 1 .. Len(errors) : errors[i] # Nil

\* the exclude lists a filter specification is given: none (the key is left
\* out), the empty list, a list that matches every machine, and a list that
\* holds a pattern that does not compile
NoExclude == << "absent" >>

ExcludeLists == {NoExclude, << >>, << PAny >>, << PHostN, POpen >>}

\* the entry of a key with its exclude list replaced by ex
SetExclude(entry, ex) ==
    [k \in (DOMAIN entry \ {"exclude"}) \cup (IF ex = NoExclude THEN {} ELSE {"exclude"}) |->
        IF k = "exclude" THEN ex ELSE entry[k]]

\* the filter specification f with the exclude lists hx and zx
WithExcludes(f, hx, zx) ==
    [key \in DOMAIN f |->
        IF key = "hosts" THEN SetExclude(f[key], hx)
        ELSE IF key = "zones" THEN SetExclude(f[key], zx)
        ELSE f[key]]

\* the filter specifications that differ from f in their exclude lists only
ExcludeVariants(f) == {WithExcludes(f, hx, zx) : hx \in ExcludeLists, zx \in ExcludeLists}

\* the host and zone patterns of g put node in scope
InScopeUnder(g, node) ==
    InScope(buildHostNameFilter(g).res, buildZoneFilter(g).res, node)

\* what ProcessAll does with the snapshot under g is what this step of main,
\* which ran it under the configured filter specification, has done
SameUnder(g) ==
    /\ ProcessAllFatal(g) = (pc' = "fatal")
    /\ pc' # "fatal" =>
          LET res == ProcessAll(nodes, g)
          IN  /\ \A i \in 1 .. Len(nodes) :
                    InScopeUnder(g, nodes[i]) = (i \in lookedUp' \/ errors'[i] # Nil)
              /\ dispatched' = [i \in 1 .. Len(nodes) |-> res[i].spawn]
              /\ errors' = [i \in 1 .. Len(nodes) |-> res[i].err]
              /\ lookedUp' = {i \in 1 .. Len(nodes) : res[i].lookup}

InScopeNode(i) == i \in 1 .. Len(nodes) /\ InScopeUnder(filter, nodes[i])

\* machine m is in scope of the filter
InScopeMachine(m) ==
    InScopeUnder(filter, Node(Fleet[m].id, Fleet[m].hostname, Fleet[m].zone, 0))

\* a goroutine for machine m that posts an operation is in flight
OperationPending(m) == \E t \in inflight : t.idx = m /\ RemoteOp(t.action) # "none"

\* a pass that finds a machine Deployed selects Done for it, which posts
\* nothing, and a Deployed machine stays Deployed
C18_DeployedStep ==
    /\ \A m \in FleetIds : StatusOf(m) = "Deployed" => world'[m] = world[m]
    /\ (pc = "process" /\ pc' # pc) =>
          \A i \in 1 .. Len(nodes) :
             (InScopeNode(i) /\ StatusString(nodes[i].substatus) = "Deployed") =>
                /\ dispatched'[i] = "Done"
                /\ RemoteOp(dispatched'[i]) = "none"
                /\ \A t \in inflight' \ inflight : t.idx = i => t.action = "Done"

\* C18: with a service that accepts every operation and fair scheduling, an
\* in-scope machine a pass observes in New, Ready or Allocated reaches
\* Deployed and stays there; from then on every pass selects Done for it,
\* and in the end no goroutine that posts an operation for it is left
C18_ProgressToDeployed ==
    /\ \A m \in FleetIds :
          (pc = "process" /\ InScopeNode(m)
              /\ StatusString(nodes[m].substatus) \in ProgressStatuses)
             ~> (StatusOf(m) = "Deployed")
    /\ [][C18_DeployedStep]_vars
    /\ \A m \in FleetIds :
          InScopeMachine(m) =>
             <>[](StatusOf(m) = "Deployed" /\ ~OperationPending(m)
                     /\ (PassDone => dispatched[m] = "Done"))

\* the first machine, observed New by the first pass, is Deployed, a pass
\* has selected Done for it, and a goroutine posting an operation for it is
\* still in flight
C18_Witness ==
    /\ InScopeMachine(1)
    /\ StatusOf(1) = "Deployed"
    /\ pc = "ticker"
    /\ dispatched[1] = "Done"
    /\ OperationPending(1)

====
